---- MODULE Spec2Model ----
(***************************************************************************)
(* Model of context-osk/gen_theme.py: the generator of the on-screen       *)
(* keyboard theme.  The script prints a [General] header and then walks    *)
(* tkl_layout row by row, printing one section per key.                    *)
(*                                                                         *)
(* Width units are Python floats with at most two decimals, all multiples  *)
(* of 0.25 and therefore exact in binary floating point.  They are kept    *)
(* here as integers in hundredths of a unit (1.75 is 175), and int() is    *)
(* the truncation of such a fixed-point number.  Strings the script takes  *)
(* apart or builds (labels, section names) are sequences of characters.    *)
(***************************************************************************)
EXTENDS Integers, Sequences, FiniteSets, TLC

\* Layout Configuration
UNIT == 34
KEY_W_BASE == 32
GAP == 2
START_X == 2
START_Y == 2
HEIGHT == 32

\* Keycodes
K_ESC == 9
K_F1 == 67
K_F2 == 68
K_F3 == 69
K_F4 == 70
K_F5 == 71
K_F6 == 72
K_F7 == 73
K_F8 == 74
K_F9 == 75
K_F10 == 76
K_F11 == 95
K_F12 == 96
K_PRTSC == 107
K_SCRLK == 78
K_PAUSE == 127
K_GRAVE == 49
K_1 == 10
K_2 == 11
K_3 == 12
K_4 == 13
K_5 == 14
K_6 == 15
K_7 == 16
K_8 == 17
K_9 == 18
K_0 == 19
K_MINUS == 20
K_EQUAL == 21
K_BKSP == 22
K_INS == 118
K_HOME == 110
K_PGUP == 112
K_TAB == 23
K_Q == 24
K_W == 25
K_E == 26
K_R == 27
K_T == 28
K_Y == 29
K_U == 30
K_I == 31
K_O == 32
K_P == 33
K_LBRACKET == 34
K_RBRACKET == 35
K_BACKSLASH == 51
K_DEL == 119
K_END == 115
K_PGDN == 117
K_CAPS == 66
K_A == 38
K_S == 39
K_D == 40
K_F == 41
K_G == 42
K_H == 43
K_J == 44
K_K == 45
K_L == 46
K_SEMICOLON == 47
K_QUOTE == 48
K_ENTER == 36
K_LSHIFT == 50
K_Z == 52
K_X == 53
K_C == 54
K_V == 55
K_B == 56
K_N == 57
K_M == 58
K_COMMA == 59
K_PERIOD == 60
K_SLASH == 61
K_RSHIFT == 62
K_UP == 111
K_LCTRL == 37
K_SUPER == 133
K_LALT == 64
K_SPACE == 65
K_RALT == 108
K_MENU == 135
K_RCTRL == 105
K_LEFT == 113
K_DOWN == 116
K_RIGHT == 114

\* One unit of width, in the fixed-point representation of the float widths.
Hundredths == 100

\* The grave accent (U+0060) of the label of K_GRAVE and of the first
\* replace of safe_label: the one character a string literal cannot hold.
GRAVE == "U+0060"

\* The fourth field of the five-field descriptors.
None == "None"

\* Define Rows: (Label, Keycode, WidthUnits, ForceColOffset?, IsToggle?)
tkl_layout ==
  <<
    \* Row 0
    << <<<<"E", "s", "c">>, K_ESC, 100>>,
       <<<<"G", "A", "P">>, 0, 100>>,
       <<<<"F", "1">>, K_F1, 100>>,
       <<<<"F", "2">>, K_F2, 100>>,
       <<<<"F", "3">>, K_F3, 100>>,
       <<<<"F", "4">>, K_F4, 100>>,
       <<<<"G", "A", "P">>, 0, 50>>,
       <<<<"F", "5">>, K_F5, 100>>,
       <<<<"F", "6">>, K_F6, 100>>,
       <<<<"F", "7">>, K_F7, 100>>,
       <<<<"F", "8">>, K_F8, 100>>,
       <<<<"G", "A", "P">>, 0, 50>>,
       <<<<"F", "9">>, K_F9, 100>>,
       <<<<"F", "1", "0">>, K_F10, 100>>,
       <<<<"F", "1", "1">>, K_F11, 100>>,
       <<<<"F", "1", "2">>, K_F12, 100>>,
       <<<<"G", "A", "P">>, 0, 50>>,
       <<<<"P", "r", "t", "S", "c">>, K_PRTSC, 100>>,
       <<<<"S", "c", "r", "L", "k">>, K_SCRLK, 100>>,
       <<<<"P", "a", "u", "s", "e">>, K_PAUSE, 100>> >>,
    \* Row 1
    << <<<<GRAVE>>, K_GRAVE, 100>>,
       <<<<"1">>, K_1, 100>>,
       <<<<"2">>, K_2, 100>>,
       <<<<"3">>, K_3, 100>>,
       <<<<"4">>, K_4, 100>>,
       <<<<"5">>, K_5, 100>>,
       <<<<"6">>, K_6, 100>>,
       <<<<"7">>, K_7, 100>>,
       <<<<"8">>, K_8, 100>>,
       <<<<"9">>, K_9, 100>>,
       <<<<"0">>, K_0, 100>>,
       <<<<"-">>, K_MINUS, 100>>,
       <<<<"=">>, K_EQUAL, 100>>,
       <<<<"B", "k", "s", "p">>, K_BKSP, 200>>,
       <<<<"G", "A", "P">>, 0, 50>>,
       <<<<"I", "n", "s">>, K_INS, 100>>,
       <<<<"H", "o", "m", "e">>, K_HOME, 100>>,
       <<<<"P", "g", "U", "p">>, K_PGUP, 100>> >>,
    \* Row 2
    << <<<<"T", "a", "b">>, K_TAB, 150>>,
       <<<<"Q">>, K_Q, 100>>,
       <<<<"W">>, K_W, 100>>,
       <<<<"E">>, K_E, 100>>,
       <<<<"R">>, K_R, 100>>,
       <<<<"T">>, K_T, 100>>,
       <<<<"Y">>, K_Y, 100>>,
       <<<<"U">>, K_U, 100>>,
       <<<<"I">>, K_I, 100>>,
       <<<<"O">>, K_O, 100>>,
       <<<<"P">>, K_P, 100>>,
       <<<<"[">>, K_LBRACKET, 100>>,
       <<<<"]">>, K_RBRACKET, 100>>,
       <<<<"\\">>, K_BACKSLASH, 150>>,
       <<<<"G", "A", "P">>, 0, 50>>,
       <<<<"D", "e", "l">>, K_DEL, 100>>,
       <<<<"E", "n", "d">>, K_END, 100>>,
       <<<<"P", "g", "D", "n">>, K_PGDN, 100>> >>,
    \* Row 3
    << <<<<"C", "a", "p", "s">>, K_CAPS, 175>>,
       <<<<"A">>, K_A, 100>>,
       <<<<"S">>, K_S, 100>>,
       <<<<"D">>, K_D, 100>>,
       <<<<"F">>, K_F, 100>>,
       <<<<"G">>, K_G, 100>>,
       <<<<"H">>, K_H, 100>>,
       <<<<"J">>, K_J, 100>>,
       <<<<"K">>, K_K, 100>>,
       <<<<"L">>, K_L, 100>>,
       <<<<";">>, K_SEMICOLON, 100>>,
       <<<<"'">>, K_QUOTE, 100>>,
       <<<<"E", "n", "t", "e", "r">>, K_ENTER, 225>> >>,
    \* Row 4
    << <<<<"S", "h", "i", "f", "t">>, K_LSHIFT, 225, None, TRUE>>,
       <<<<"Z">>, K_Z, 100>>,
       <<<<"X">>, K_X, 100>>,
       <<<<"C">>, K_C, 100>>,
       <<<<"V">>, K_V, 100>>,
       <<<<"B">>, K_B, 100>>,
       <<<<"N">>, K_N, 100>>,
       <<<<"M">>, K_M, 100>>,
       <<<<",">>, K_COMMA, 100>>,
       <<<<".">>, K_PERIOD, 100>>,
       <<<<"/">>, K_SLASH, 100>>,
       <<<<"S", "h", "i", "f", "t">>, K_RSHIFT, 275, None, TRUE>>,
       <<<<"G", "A", "P">>, 0, 150>>,
       <<<<"U", "p">>, K_UP, 100>> >>,
    \* Row 5
    << <<<<"C", "t", "r", "l">>, K_LCTRL, 150, None, TRUE>>,
       <<<<"W", "i", "n">>, K_SUPER, 125, None, TRUE>>,
       <<<<"A", "l", "t">>, K_LALT, 125, None, TRUE>>,
       <<<<"S", "p", "a", "c", "e">>, K_SPACE, 700>>,
       <<<<"A", "l", "t">>, K_RALT, 125, None, TRUE>>,
       <<<<"M", "e", "n", "u">>, K_MENU, 125, None, TRUE>>,
       <<<<"C", "t", "r", "l">>, K_RCTRL, 150, None, TRUE>>,
       <<<<"G", "A", "P">>, 0, 50>>,
       <<<<"L", "e", "f", "t">>, K_LEFT, 100>>,
       <<<<"D", "o", "w", "n">>, K_DOWN, 100>>,
       <<<<"R", "i", "g", "h", "t">>, K_RIGHT, 100>> >>
  >>

VARIABLES
    pc,               \* position of the script: "header", "row", "item", "done"
    r_idx,            \* index of the current row (enumerate, from 0)
    item_idx,         \* position of the inner loop in the row (from 1)
    current_x_units,  \* running horizontal offset of the row, in hundredths
    y_pos,            \* vertical pixel position of the row
    out               \* the sections printed so far, in order

vars == <<pc, r_idx, item_idx, current_x_units, y_pos, out>>

----------------------------------------------------------------------------
\* Helpers of the script's expressions

\* int() of a fixed-point number n/d: truncation towards zero.
Trunc(n, d) == IF n >= 0 THEN n \div d ELSE -((-n) \div d)

Digit == <<"0", "1", "2", "3", "4", "5", "6", "7", "8", "9">>

\* The decimal text of a non-negative integer, as an f-string formats it.
RECURSIVE Str(_)
Str(n) == IF n < 10 THEN <<Digit[n + 1]>>
          ELSE Str(n \div 10) \o <<Digit[(n % 10) + 1]>>

\* str.replace(old, new) for a one-character old.
RECURSIVE Replace(_, _, _)
Replace(s, old, new) ==
    IF s = <<>> THEN <<>>
    ELSE (IF Head(s) = old THEN new ELSE <<Head(s)>>) \o Replace(Tail(s), old, new)

safe_label_NoDash(label) ==
    Replace(Replace(Replace(Replace(Replace(Replace(Replace(Replace(Replace(Replace(
        label,
        GRAVE, <<"B", "a", "c", "k", "t", "i", "c", "k">>),
        "\\", <<"B", "a", "c", "k", "s", "l", "a", "s", "h">>),
        "[", <<"L", "B", "r">>),
        "]", <<"R", "B", "r">>),
        "=", <<"E", "q", "u", "a", "l">>),
        ";", <<"C", "o", "l", "o", "n">>),
        "'", <<"Q", "u", "o", "t", "e">>),
        ",", <<"C", "o", "m", "m", "a">>),
        ".", <<"D", "o", "t">>),
        "/", <<"S", "l", "a", "s", "h">>)

safe_label(label) ==
    Replace(Replace(Replace(Replace(Replace(Replace(Replace(Replace(Replace(Replace(Replace(
        label,
        GRAVE, <<"B", "a", "c", "k", "t", "i", "c", "k">>),
        "\\", <<"B", "a", "c", "k", "s", "l", "a", "s", "h">>),
        "[", <<"L", "B", "r">>),
        "]", <<"R", "B", "r">>),
        "=", <<"E", "q", "u", "a", "l">>),
        ";", <<"C", "o", "l", "o", "n">>),
        "'", <<"Q", "u", "o", "t", "e">>),
        ",", <<"C", "o", "m", "m", "a">>),
        ".", <<"D", "o", "t">>),
        "/", <<"S", "l", "a", "s", "h">>),
        "-", <<"D", "a", "s", "h">>)

section_name_LabelOnly(label, keycode) ==
    <<"K", "e", "y", "_">> \o safe_label(label)

section_name(label, keycode) ==
    <<"K", "e", "y", "_">> \o safe_label(label) \o <<"_">> \o Str(keycode)

IsGap_Never(label) == FALSE

\* label == "GAP"
IsGap(label) == label = <<"G", "A", "P">>

is_toggle_Never(item) == FALSE

\* len(item) > 4 and item[4]
is_toggle(item) == Len(item) > 4 /\ item[5] = TRUE

y_pos_NextRow(r) == START_Y + (r + 1) * UNIT

\* START_Y + r_idx * UNIT
y_pos_at(r) == START_Y + r * UNIT

\* int(START_X + current_x_units * UNIT)
x_pos(units) == Trunc(START_X * Hundredths + units * UNIT, Hundredths)

w_pos_RoundUp(width_units) ==
    Trunc(width_units * UNIT - GAP * Hundredths + (Hundredths - 1), Hundredths)

w_pos_NoGap(width_units) == Trunc(width_units * UNIT, Hundredths)

\* int(width_units * UNIT - GAP)
w_pos(width_units) == Trunc(width_units * UNIT - GAP * Hundredths, Hundredths)

Advance_Stay(units, width_units) == units

\* current_x_units += width_units
Advance(units, width_units) == units + width_units

\* int(19 * UNIT)
header_width == 19 * UNIT

header_height_Rows == 6 * UNIT

\* int(6 * UNIT + 4)
header_height == 6 * UNIT + 4

\* The four lines of the header.
GeneralSection ==
    [name  |-> <<"G", "e", "n", "e", "r", "a", "l">>,
     lines |-> << <<"width", header_width>>,
                  <<"height", header_height>>,
                  <<"background_color", "#0A0A0A">> >>]

\* The lines printed for one key: the toggle line only when is_toggle.
KeySection(label, keycode, x, y, w, toggle) ==
    [name  |-> section_name(label, keycode),
     lines |-> << <<"x", x>>,
                  <<"y", y>>,
                  <<"width", w>>,
                  <<"height", HEIGHT>>,
                  <<"keycode", keycode>> >>
               \o (IF toggle THEN << <<"toggle", "true">> >> ELSE << >>)
               \o << <<"label", label>> >>]

----------------------------------------------------------------------------
\* The script

Init ==
    /\ pc = "header"
    /\ r_idx = 0
    /\ item_idx = 0
    /\ current_x_units = 0
    /\ y_pos = 0
    /\ out = << >>

\* print("[General]") and its three fields
PrintHeader ==
    /\ pc = "header"
    /\ out' = <<GeneralSection>>
    /\ pc' = "row"
    /\ UNCHANGED <<r_idx, item_idx, current_x_units, y_pos>>

\* for r_idx, row in enumerate(tkl_layout): the head of one iteration
StartRow ==
    /\ pc = "row"
    /\ r_idx < Len(tkl_layout)
    /\ current_x_units' = 0
    /\ y_pos' = y_pos_at(r_idx)
    /\ item_idx' = 1
    /\ pc' = "item"
    /\ UNCHANGED <<r_idx, out>>

\* for item in row, the GAP branch: advance and continue
GapItem ==
    /\ pc = "item"
    /\ item_idx <= Len(tkl_layout[r_idx + 1])
    /\ LET item == tkl_layout[r_idx + 1][item_idx]
           label == item[1]
           width_units == item[3]
       IN  /\ IsGap(label)
           /\ current_x_units' = Advance(current_x_units, width_units)
    /\ item_idx' = item_idx + 1
    /\ UNCHANGED <<pc, r_idx, y_pos, out>>

\* for item in row, a real key: print its section and advance
KeyItem ==
    /\ pc = "item"
    /\ item_idx <= Len(tkl_layout[r_idx + 1])
    /\ LET item == tkl_layout[r_idx + 1][item_idx]
           label == item[1]
           width_units == item[3]
           keycode == item[2]
       IN  /\ ~IsGap(label)
           /\ out' = Append(out, KeySection(label, keycode,
                                            x_pos(current_x_units), y_pos,
                                            w_pos(width_units), is_toggle(item)))
           /\ current_x_units' = Advance(current_x_units, width_units)
    /\ item_idx' = item_idx + 1
    /\ UNCHANGED <<pc, r_idx, y_pos>>

\* the inner loop is exhausted: on to the next row
EndRow ==
    /\ pc = "item"
    /\ item_idx > Len(tkl_layout[r_idx + 1])
    /\ r_idx' = r_idx + 1
    /\ pc' = "row"
    /\ UNCHANGED <<item_idx, current_x_units, y_pos, out>>

\* the outer loop is exhausted: the script ends
Finish ==
    /\ pc = "row"
    /\ r_idx = Len(tkl_layout)
    /\ pc' = "done"
    /\ UNCHANGED <<r_idx, item_idx, current_x_units, y_pos, out>>

Next ==
    \/ PrintHeader
    \/ StartRow
    \/ GapItem
    \/ KeyItem
    \/ EndRow
    \/ Finish

Spec == Init /\ [][Next]_vars

----------------------------------------------------------------------------
\* Reading the printed output back against the table

GapLabel == <<"G", "A", "P">>

\* The positions <<row, column>> (both from 1) of the descriptors of row r,
\* from column i on, whose label is not "GAP".
RECURSIVE RowKeys(_, _)
RowKeys(r, i) ==
    IF i > Len(tkl_layout[r]) THEN << >>
    ELSE (IF tkl_layout[r][i][1] # GapLabel THEN << <<r, i>> >> ELSE << >>)
         \o RowKeys(r, i + 1)

RECURSIVE TableKeys(_)
TableKeys(r) ==
    IF r > Len(tkl_layout) THEN << >> ELSE RowKeys(r, 1) \o TableKeys(r + 1)

\* The non-gap descriptors of the table in row-major order.
KeyPos == TableKeys(1)

\* The sum of the width units of the first n descriptors of a row, gaps included.
RECURSIVE SumWidths(_, _)
SumWidths(row, n) == IF n = 0 THEN 0 ELSE SumWidths(row, n - 1) + row[n][3]

\* The number of key sections printed so far, the k-th of them, and the
\* descriptor the k-th non-gap position of the table holds.
NumKeys == IF out = << >> THEN 0 ELSE Len(out) - 1
Sec(k) == out[k + 1]
Desc(k) == tkl_layout[KeyPos[k][1]][KeyPos[k][2]]
RowOf(k) == KeyPos[k][1]
ColOf(k) == KeyPos[k][2]

\* The field names of a section in printed order, and the value of a field.
Keys(sec) == [i \in 1..Len(sec.lines) |-> sec.lines[i][1]]
HasField(sec, key) == \E i \in 1..Len(sec.lines) : sec.lines[i][1] = key
Field(sec, key) ==
    sec.lines[CHOOSE i \in 1..Len(sec.lines) : sec.lines[i][1] = key][2]

\* The number of non-gap descriptors among the first n of row r.
RECURSIVE KeysBefore(_, _)
KeysBefore(r, n) ==
    IF n = 0 THEN 0
    ELSE KeysBefore(r, n - 1) + (IF tkl_layout[r][n][1] # GapLabel THEN 1 ELSE 0)

\* The number of non-gap descriptors of the first n rows.
RECURSIVE KeysInRows(_)
KeysInRows(n) ==
    IF n = 0 THEN 0 ELSE KeysInRows(n - 1) + KeysBefore(n, Len(tkl_layout[n]))

\* The number of descriptors the script has consumed that are real keys.
KeysConsumed ==
    CASE pc = "header" -> 0
      [] pc = "row"    -> KeysInRows(r_idx)
      [] pc = "item"   -> KeysInRows(r_idx) + KeysBefore(r_idx + 1, item_idx - 1)
      [] pc = "done"   -> KeysInRows(Len(tkl_layout))

Punctuation == {GRAVE, "\\", "[", "]", "=", ";", "'", ",", ".", "/", "-"}

----------------------------------------------------------------------------
\* C1: any two distinct key sections have different names; the entries that
\* share a label (Shift, Ctrl, Alt) are told apart by their keycode.
C1_UniqueSectionNames ==
    /\ \A j, k \in 1..NumKeys : j # k => Sec(j).name # Sec(k).name
    /\ pc = "done" => NumKeys = Len(KeyPos)

C1_Witness ==
    /\ pc = "done"
    /\ Cardinality({p \in (1..NumKeys) \X (1..NumKeys) :
                       /\ p[1] < p[2]
                       /\ Field(Sec(p[1]), "label") = Field(Sec(p[2]), "label")}) = 3

\* C2 (as claimed): for every finished row, the sum of the unit widths of
\* its descriptors times UNIT equals the occupied pixel width, measured on
\* the printed integers as (x + width of the row's last key) - START_X, plus GAP.
LastKeyOfRow(r) == KeysInRows(r)
RowFinished(r) ==
    \/ pc = "done"
    \/ pc = "row" /\ r_idx >= r
    \/ pc = "item" /\ (r_idx >= r \/ (r_idx + 1 = r /\ item_idx > Len(tkl_layout[r])))
OccupiedWidth(r) ==
    Field(Sec(LastKeyOfRow(r)), "x") + Field(Sec(LastKeyOfRow(r)), "width") - START_X

C2_RowWidthExact ==
    \A r \in 1..Len(tkl_layout) :
        RowFinished(r) =>
            SumWidths(tkl_layout[r], Len(tkl_layout[r])) * UNIT
                = (OccupiedWidth(r) + GAP) * Hundredths

\* C3: the printed width of every key is floor(width_units * UNIT) - GAP and
\* is positive; the Space key (keycode 65, 7 units) is 236 wide.
C3_KeyWidth ==
    \A k \in 1..NumKeys :
        /\ Field(Sec(k), "width") = ((Desc(k)[3] * UNIT) \div Hundredths) - GAP
        /\ Field(Sec(k), "width") > 0
        /\ Field(Sec(k), "keycode") = 65 =>
               /\ Desc(k)[3] = 7 * Hundredths
               /\ Field(Sec(k), "width") = 236

C3_Witness ==
    \E j, k \in 1..NumKeys :
        /\ Field(Sec(j), "keycode") = 65 /\ Field(Sec(j), "width") = 236
        /\ Desc(k)[3] = 175 /\ Field(Sec(k), "width") = 57

\* C4: x is floor(START_X + UNIT * S), S the unit widths of the descriptors
\* before the key in its row (gaps included, from 0 in each row), and y is
\* START_Y + row_index * UNIT; a gap of g units before a key moves it right
\* by g * UNIT pixels; Esc is printed at x = 2, y = 2.
C4_KeyPosition ==
    \A k \in 1..NumKeys :
        LET row == tkl_layout[RowOf(k)]
            S   == SumWidths(row, ColOf(k) - 1)
        IN  /\ Field(Sec(k), "x") = (START_X * Hundredths + UNIT * S) \div Hundredths
            /\ Field(Sec(k), "y") = START_Y + (RowOf(k) - 1) * UNIT
            /\ (ColOf(k) > 1 /\ row[ColOf(k) - 1][1] = GapLabel) =>
                   LET g == row[ColOf(k) - 1][3]
                   IN  (Field(Sec(k), "x")
                          - (START_X * Hundredths + UNIT * (S - g)) \div Hundredths)
                       * Hundredths = g * UNIT
            /\ k = 1 => Field(Sec(k), "x") = 2 /\ Field(Sec(k), "y") = 2

C4_Witness ==
    /\ pc = "done"
    /\ \E k \in 1..NumKeys :
        /\ RowOf(k) = 5
        /\ ColOf(k) > 1
        /\ tkl_layout[RowOf(k)][ColOf(k) - 1][1] = GapLabel
        /\ Field(Sec(k), "x") = 563
        /\ Field(Sec(k), "y") = 138

\* C5: a key section is x, y, width, height, keycode, then toggle=true, then
\* label, in that order; the toggle line is there exactly for the descriptors
\* with a true fifth field, which are the two Shift, two Ctrl, two Alt, Win
\* and Menu entries.
ToggleKeycodes ==
    {K_LSHIFT, K_RSHIFT, K_LCTRL, K_RCTRL, K_LALT, K_RALT, K_SUPER, K_MENU}

C5_FieldOrderAndToggle ==
    \A k \in 1..NumKeys :
        LET marked == Len(Desc(k)) >= 5 /\ Desc(k)[5] = TRUE
        IN  /\ marked <=> Desc(k)[2] \in ToggleKeycodes
            /\ marked =>
                 /\ Keys(Sec(k)) =
                      <<"x", "y", "width", "height", "keycode", "toggle", "label">>
                 /\ Field(Sec(k), "toggle") = "true"
            /\ ~marked =>
                 Keys(Sec(k)) = <<"x", "y", "width", "height", "keycode", "label">>

C5_Witness ==
    /\ pc = "done"
    /\ Cardinality({k \in 1..NumKeys : HasField(Sec(k), "toggle")}) = 8
    /\ \E k \in 1..NumKeys : ~HasField(Sec(k), "toggle")

\* C6: the output is the [General] header once and first, then one section
\* for each non-gap descriptor consumed so far and none for a "GAP", in the
\* row-major order of the table; at the end every non-gap descriptor has its
\* section and nothing else was printed.
General == <<"G", "e", "n", "e", "r", "a", "l">>

C6_SectionSequence ==
    /\ pc = "header" <=> out = << >>
    /\ out # << >> => out[1].name = General
    /\ \A k \in 1..NumKeys : Sec(k).name # General
    /\ NumKeys = KeysConsumed
    /\ \A k \in 1..NumKeys :
        /\ k <= Len(KeyPos)
        /\ Field(Sec(k), "label") = Desc(k)[1]
        /\ Field(Sec(k), "keycode") = Desc(k)[2]
        /\ Field(Sec(k), "label") # GapLabel
    /\ pc = "done" => Len(out) = 1 + Len(KeyPos)

C6_Witness ==
    /\ pc = "done"
    /\ Len(out) = 87
    /\ Field(out[87], "keycode") = K_RIGHT

\* C7: the header carries width 19 * UNIT = 646, height 6 * UNIT + 4 = 208
\* and background_color #0A0A0A, whatever part of the table has been printed.
C7_Header ==
    out # << >> =>
        /\ out[1].name = General
        /\ out[1].lines = << <<"width", 646>>,
                             <<"height", 208>>,
                             <<"background_color", "#0A0A0A">> >>
        /\ 19 * UNIT = 646
        /\ 6 * UNIT + 4 = 208

C7_Witness ==
    /\ pc = "done"
    /\ NumKeys = Len(KeyPos)
    /\ Field(out[1], "width") = 646
    /\ Field(out[1], "height") = 208

\* C8: no section name holds one of the eleven punctuation characters, a
\* one-character punctuation label appears in the name as its word, and the
\* label field of the section is the label of the table, unchanged.
Word(c) ==
    CASE c = GRAVE -> <<"B", "a", "c", "k", "t", "i", "c", "k">>
      [] c = "\\"  -> <<"B", "a", "c", "k", "s", "l", "a", "s", "h">>
      [] c = "["   -> <<"L", "B", "r">>
      [] c = "]"   -> <<"R", "B", "r">>
      [] c = "="   -> <<"E", "q", "u", "a", "l">>
      [] c = ";"   -> <<"C", "o", "l", "o", "n">>
      [] c = "'"   -> <<"Q", "u", "o", "t", "e">>
      [] c = ","   -> <<"C", "o", "m", "m", "a">>
      [] c = "."   -> <<"D", "o", "t">>
      [] c = "/"   -> <<"S", "l", "a", "s", "h">>
      [] c = "-"   -> <<"D", "a", "s", "h">>

C8_SanitizedName ==
    \A k \in 1..NumKeys :
        LET name  == Sec(k).name
            label == Desc(k)[1]
        IN  /\ \A i \in 1..Len(name) : name[i] \notin Punctuation
            /\ Field(Sec(k), "label") = label
            /\ (Len(label) = 1 /\ label[1] \in Punctuation) =>
                   \E n \in 1..Len(name) :
                       /\ SubSeq(name, 1, n) = <<"K", "e", "y", "_">> \o Word(label[1]) \o <<"_">>
                       /\ \A i \in (n + 1)..Len(name) : name[i] \in {Digit[d] : d \in 1..10}
                       /\ n < Len(name)

C8_Witness ==
    /\ pc = "done"
    /\ Cardinality({k \in 1..NumKeys :
                       \E i \in 1..Len(Field(Sec(k), "label")) :
                           Field(Sec(k), "label")[i] \in Punctuation}) = 11

\* C9: key rectangles do not overlap: consecutive keys of a row are at least
\* GAP pixels apart, also where fractional unit widths are truncated, and a
\* key of an upper row ends above the keys of every lower row.
Right(sec) == Field(sec, "x") + Field(sec, "width")
Bottom(sec) == Field(sec, "y") + Field(sec, "height")

C9_NoOverlap ==
    /\ \A k \in 1..(NumKeys - 1) :
           RowOf(k) = RowOf(k + 1) =>
               Field(Sec(k + 1), "x") - Right(Sec(k)) >= GAP
    /\ \A j, k \in 1..NumKeys :
           RowOf(j) < RowOf(k) => Bottom(Sec(j)) < Field(Sec(k), "y")
    /\ \A j, k \in 1..NumKeys :
           j # k =>
               ~ /\ Field(Sec(j), "x") < Right(Sec(k))
                 /\ Field(Sec(k), "x") < Right(Sec(j))
                 /\ Field(Sec(j), "y") < Bottom(Sec(k))
                 /\ Field(Sec(k), "y") < Bottom(Sec(j))

C9_Witness ==
    /\ pc = "done"
    /\ \E k \in 1..(NumKeys - 1) :
        /\ RowOf(k) = RowOf(k + 1)
        /\ Desc(k)[3] = 125
        /\ Field(Sec(k + 1), "x") - Right(Sec(k)) = 3

\* C10: every key rectangle lies inside the canvas of the header:
\* 0 <= x, x + width <= 646, 0 <= y, y + height <= 208.
C10_InsideCanvas ==
    \A k \in 1..NumKeys :
        /\ 0 <= Field(Sec(k), "x")
        /\ Right(Sec(k)) <= Field(out[1], "width")
        /\ Right(Sec(k)) <= 646
        /\ 0 <= Field(Sec(k), "y")
        /\ Bottom(Sec(k)) <= Field(out[1], "height")
        /\ Bottom(Sec(k)) <= 208

C10_Witness ==
    /\ pc = "done"
    /\ \E k \in 1..NumKeys : Right(Sec(k)) = 629 /\ Bottom(Sec(k)) = 204

====
